---- MODULE Spec2Model ----
(***************************************************************************)
(* Model of src/miway_drive_browser.py: resolution of the feed folder on   *)
(* the remote tree, enumeration of the date=/hour= partitions, and the     *)
(* streaming export of the candidate parquet parts into one CSV file.      *)
(*                                                                         *)
(* Python strings are modelled as sequences of one-character strings, so   *)
(* that split("="), int(), endswith(), lower() and the lexicographic order *)
(* used by list.sort are computed the way the interpreter computes them.   *)
(***************************************************************************)
EXTENDS Integers, Sequences, FiniteSets, TLC

\* ------------------------------------------------------------------ bounds
\* Number of calendar days the date widgets can select (from 2024-01-30 on).
NumDays == 3
\* Number of data rows of a file left at the destination before the session.
StaleRows == 1

\* ----------------------------------------------------------------- strings
\* The characters of the model's names, in code-point order.
AsciiOrder ==
    << "+", "-", ".", "/",
       "0", "1", "2", "3", "4", "5", "6", "7", "8", "9",
       "=",
       "A", "B", "C", "D", "E", "F", "G", "H", "I", "J", "K", "L", "M",
       "N", "O", "P", "Q", "R", "S", "T", "U", "V", "W", "X", "Y", "Z",
       "_",
       "a", "b", "c", "d", "e", "f", "g", "h", "i", "j", "k", "l", "m",
       "n", "o", "p", "q", "r", "s", "t", "u", "v", "w", "x", "y", "z" >>

CharCode(c) ==
    CHOOSE i \in 1..Len(AsciiOrder) : AsciiOrder[i] = c

Digits == <<"0", "1", "2", "3", "4", "5", "6", "7", "8", "9">>

IsDigit(c) == \E i \in 1..10 : Digits[i] = c

DigitVal(c) == (CHOOSE i \in 1..10 : Digits[i] = c) - 1

\* str < str of Python: lexicographic by code point, a proper prefix first.
RECURSIVE StrLess(_, _)
StrLess(a, b) ==
    IF b = <<>> THEN FALSE
    ELSE IF a = <<>> THEN TRUE
    ELSE IF a[1] # b[1] THEN CharCode(a[1]) < CharCode(b[1])
    ELSE StrLess(Tail(a), Tail(b))

\* str.endswith(suffix)
EndsWith(s, suffix) ==
    /\ Len(s) >= Len(suffix)
    /\ SubSeq(s, Len(s) - Len(suffix) + 1, Len(s)) = suffix

\* str.lower() on the model's alphabet: A..Z to a..z, the rest unchanged.
LowerChar(c) ==
    IF CharCode(c) >= CharCode("A") /\ CharCode(c) <= CharCode("Z")
    THEN AsciiOrder[CharCode(c) + (CharCode("a") - CharCode("A"))]
    ELSE c

Lower(s) == [i \in 1..Len(s) |-> LowerChar(s[i])]

\* str.split(sep) for a one-character separator: the list of fields.
RECURSIVE SplitFrom(_, _, _)
SplitFrom(s, sep, cur) ==
    IF s = <<>> THEN <<cur>>
    ELSE IF s[1] = sep THEN <<cur>> \o SplitFrom(Tail(s), sep, <<>>)
    ELSE SplitFrom(Tail(s), sep, Append(cur, s[1]))

Split(s, sep) == SplitFrom(s, sep, <<>>)

\* int(str) on the model's alphabet: an optional sign and one or more digits;
\* anything else raises ValueError (ok = FALSE).
RECURSIVE DigitsVal(_, _)
DigitsVal(s, acc) ==
    IF s = <<>> THEN acc ELSE DigitsVal(Tail(s), acc * 10 + DigitVal(s[1]))

ParseInt(s) ==
    LET signed == s # <<>> /\ s[1] \in {"+", "-"}
        body == IF signed THEN Tail(s) ELSE s
        ok == body # <<>> /\ \A i \in 1..Len(body) : IsDigit(body[i])
        mag == IF ok THEN DigitsVal(body, 0) ELSE 0
    IN  [ok |-> ok, val |-> IF signed /\ s[1] = "-" THEN 0 - mag ELSE mag]

\* format(n, "02d") for 0 <= n <= 99
Pad2(n) == <<Digits[(n \div 10) + 1], Digits[(n % 10) + 1]>>

\* ------------------------------------------------------------------- dates
\* A datetime.date of the year 2024 is its day of the year (1 = 2024-01-01);
\* date + timedelta(days=1) is then + 1 and date comparison is integer order.
MonthLengths == <<31, 29, 31, 30, 31, 30, 31, 31, 30, 31, 30, 31>>

RECURSIVE MonthDay(_, _)
MonthDay(doy, m) ==
    IF doy <= MonthLengths[m] THEN [month |-> m, day |-> doy]
    ELSE MonthDay(doy - MonthLengths[m], m + 1)

\* date.isoformat()
IsoFormat(d) ==
    LET md == MonthDay(d, 1)
    IN  <<"2", "0", "2", "4", "-">> \o Pad2(md.month) \o <<"-">> \o Pad2(md.day)

Dates == 30 .. (29 + NumDays)

Min(a, b) == IF a <= b THEN a ELSE b
Max(a, b) == IF a >= b THEN a ELSE b

RECURSIVE daterange(_, _)
daterange(d0, d1) ==
    IF d0 <= d1 THEN <<d0>> \o daterange(d0 + 1, d1) ELSE <<>>

\* A datetime.time or None.
NoTime == [some |-> FALSE, hour |-> 0, minute |-> 0]
Time(h, m) == [some |-> TRUE, hour |-> h, minute |-> m]

\* bool(t) for Optional[datetime.time]: None is false, a time object is
\* true whatever its value (midnight included, since Python 3.5).
TimeTruthyMidnightFalse(t) == t.some /\ ~(t.hour = 0 /\ t.minute = 0)
TimeTruthy(t) == t.some

time_to_hour(t) == t.hour

hour_folder_name(h) == <<"h", "o", "u", "r", "=">> \o Pad2(h)

date_folder_name(d) == <<"d", "a", "t", "e", "=">> \o IsoFormat(d)

\* ------------------------------------------------------------- remote tree
\* Optional[str]: None, or a Drive file id (an opaque non-empty string).
None == "None"

\* `if not x` on an Optional[str]
Falsy(x) == x = None \/ x = ""

FEEDS ==
    << <<"v", "e", "h", "i", "c", "l", "e", "_",
         "p", "o", "s", "i", "t", "i", "o", "n", "s">>,
       <<"t", "r", "i", "p", "_", "u", "p", "d", "a", "t", "e", "s">>,
       <<"a", "l", "e", "r", "t", "s">> >>

AGENCY_SLUG_DEFAULT == <<"m", "i", "w", "a", "y">>

RAW == <<"r", "a", "w">>

Folder(id, parent, name) ==
    [id |-> id, parent |-> parent, name |-> name, folder |-> TRUE,
     rows |-> 0, schema |-> "", corrupt |-> FALSE]

Part(id, parent, name, rows, schema, corrupt) ==
    [id |-> id, parent |-> parent, name |-> name, folder |-> FALSE,
     rows |-> rows, schema |-> schema, corrupt |-> corrupt]

aParquet == <<"a", ".", "p", "a", "r", "q", "u", "e", "t">>
bParquet == <<"b", ".", "p", "a", "r", "q", "u", "e", "t">>

\* The remote tree, each folder's children in the order the service lists
\* them: <ROOT>/<agency_slug>/raw/<feed>/date=YYYY-MM-DD/hour=HH/*.parquet,
\* with the irregular entries a Drive folder can hold beside the logger's.
FullTree ==
    << Folder("ag", "ROOT", AGENCY_SLUG_DEFAULT),
       Folder("raw", "ag", RAW),
       Folder("vp", "raw", FEEDS[1]),
       Folder("tu", "raw", FEEDS[2]),
       \* vehicle_positions: 2024-01-30 and 2024-02-01 (no folder for 01-31)
       Folder("d30", "vp", <<"d", "a", "t", "e", "=", "2", "0", "2", "4", "-", "0", "1", "-", "3", "0">>),
       Part("f31", "vp", <<"d", "a", "t", "e", "=", "2", "0", "2", "4", "-", "0", "1", "-", "3", "1">>, 1, "s1", FALSE),
       Folder("d32", "vp", <<"d", "a", "t", "e", "=", "2", "0", "2", "4", "-", "0", "2", "-", "0", "1">>),
       Folder("h06", "d30", <<"h", "o", "u", "r", "=", "0", "6">>),
       Folder("h05", "d30", <<"h", "o", "u", "r", "=", "0", "5">>),
       Folder("jk", "d30", <<"j", "u", "n", "k">>),
       Folder("hxx", "d30", <<"h", "o", "u", "r", "=", "x", "x">>),
       Folder("hr07", "d30", <<"h", "r", "=", "0", "7">>),
       Part("b6", "h06", bParquet, 1, "s1", FALSE),
       Part("b5", "h05", bParquet, 2, "s1", FALSE),
       Part("a5", "h05", aParquet, 0, "s1", FALSE),
       Part("n5", "h05", <<"n", ".", "t", "x", "t">>, 1, "s1", FALSE),
       Folder("sub5", "h05", aParquet),
       Part("j1", "jk", aParquet, 1, "s1", FALSE),
       Part("x1", "hxx", aParquet, 1, "s1", FALSE),
       Part("r7", "hr07", aParquet, 1, "s1", FALSE),
       Folder("h10", "d32", <<"h", "o", "u", "r", "=", "1", "0">>),
       Folder("h9", "d32", <<"h", "o", "u", "r", "=", "9">>),
       Part("c10", "h10", aParquet, 1, "s1", FALSE),
       Part("e9", "h9", aParquet, 2, "s2", FALSE),
       \* trip_updates: 2024-01-31 only
       Folder("td", "tu", <<"d", "a", "t", "e", "=", "2", "0", "2", "4", "-", "0", "1", "-", "3", "1">>),
       Folder("th23", "td", <<"h", "o", "u", "r", "=", "2", "3">>),
       Folder("th0", "td", <<"h", "o", "u", "r", "=", "0", "0">>),
       Part("t23", "th23", aParquet, 1, "s1", TRUE),
       Part("T23", "th23", <<"A", ".", "P", "A", "R", "Q", "U", "E", "T">>, 1, "s1", FALSE),
       Part("t0", "th0", aParquet, 1, "s1", FALSE) >>

Layouts == {"full", "no_agency", "no_raw"}

\* The tree of a deployment: complete, or with the agency folder or its
\* raw folder absent.
Tree(layout) ==
    CASE layout = "full" -> FullTree
      [] layout = "no_raw" -> SelectSeq(FullTree, LAMBDA n : n.id = "ag")
      [] layout = "no_agency" -> <<>>

Node(tree, id) ==
    tree[CHOOSE i \in 1..Len(tree) : tree[i].id = id]

\* files().list with 'parent' in parents and the folder / non-folder filter
drive_list_children(tree, parent_id, only_folders) ==
    SelectSeq(tree, LAMBDA n : n.parent = parent_id /\ n.folder = only_folders)

\* The first folder named folder_name under parent_id, or None.
drive_find_child_folder_id(tree, parent_id, folder_name) ==
    LET files == SelectSeq(tree, LAMBDA n :
                     n.parent = parent_id /\ n.folder /\ n.name = folder_name)
    IN  IF files # <<>> THEN files[1].id ELSE None

\* ------------------------------------------------------------ enumeration
\* hour_range of list_candidate_parquet_files: a set of hours, or None
\* (filter = FALSE).
HourRange(start_time, end_time) ==
    IF TimeTruthy(start_time) /\ TimeTruthy(end_time)
    THEN [filter |-> TRUE,
          hours |-> Min(time_to_hour(start_time), time_to_hour(end_time))
                    .. Max(time_to_hour(start_time), time_to_hour(end_time))]
    ELSE [filter |-> FALSE, hours |-> {}]

\* int(hname.split("=")[1]): IndexError without a second field, ValueError
\* when that field is no integer literal.
HourOfName(hname) ==
    LET fields == Split(hname, "=")
    IN  IF Len(fields) < 2 THEN [ok |-> FALSE, val |-> 0]
        ELSE ParseInt(fields[2])

\* The body of `for hf in hour_folders`: the tuples one hour folder adds.
HourFolderFiles(tree, dname, hf, hour_range) ==
    LET hh == HourOfName(hf.name)
    IN  IF ~hh.ok THEN <<>>
        ELSE IF hour_range.filter /\ hh.val \notin hour_range.hours THEN <<>>
        ELSE LET parts == drive_list_children(tree, hf.id, FALSE)
                 kept == SelectSeq(parts, LAMBDA p :
                             EndsWith(p.name, <<".", "p", "a", "r", "q", "u", "e", "t">>))
             IN  [i \in 1..Len(kept) |->
                     <<kept[i].id, kept[i].name, dname \o <<"/">> \o hf.name>>]

\* `for hf in hour_folders`: the tuples the hour folders add, in order.
RECURSIVE HourFoldersFiles(_, _, _, _)
HourFoldersFiles(tree, dname, hour_folders, hour_range) ==
    IF hour_folders = <<>> THEN <<>>
    ELSE HourFolderFiles(tree, dname, hour_folders[1], hour_range)
         \o HourFoldersFiles(tree, dname, Tail(hour_folders), hour_range)

\* The body of `for d in daterange(...)`: the tuples one date adds.
DateFiles(tree, feed_root_id, d, hour_range) ==
    LET dname == date_folder_name(d)
        date_id == drive_find_child_folder_id(tree, feed_root_id, dname)
    IN  IF Falsy(date_id) THEN <<>>
        ELSE HourFoldersFiles(tree, dname,
                 drive_list_children(tree, date_id, TRUE), hour_range)

\* `for d in daterange(...)`: the tuples the dates add, in order.
RECURSIVE DatesFiles(_, _, _, _)
DatesFiles(tree, feed_root_id, dates, hour_range) ==
    IF dates = <<>> THEN <<>>
    ELSE DateFiles(tree, feed_root_id, dates[1], hour_range)
         \o DatesFiles(tree, feed_root_id, Tail(dates), hour_range)

\* key=lambda x: (x[2], x[1]) with Python's tuple order; the model's tuples
\* are 1-based: <<file_id, file_name, logical>>.
SortKeyLess(x, y) ==
    \/ StrLess(x[3], y[3])
    \/ x[3] = y[3] /\ StrLess(x[2], y[2])

RECURSIVE InsertSorted(_, _)
InsertSorted(s, x) ==
    IF s = <<>> THEN <<x>>
    ELSE IF SortKeyLess(x, s[1]) THEN <<x>> \o s
    ELSE <<s[1]>> \o InsertSorted(Tail(s), x)

RECURSIVE SortFrom(_, _)
SortFrom(acc, s) ==
    IF s = <<>> THEN acc ELSE SortFrom(InsertSorted(acc, s[1]), Tail(s))

\* files_out.sort(key=...): list.sort is stable.
SortUnsorted(files_out) == files_out
SortCandidates(files_out) == SortFrom(<<>>, files_out)

list_candidate_parquet_files(tree, feed_root_id, start_date, end_date, start_time, end_time) ==
    SortCandidates(DatesFiles(tree, feed_root_id,
                              daterange(start_date, end_date),
                              HourRange(start_time, end_time)))

\* The call of list_candidate_parquet_files in the Load / Refresh handler.
LoadClickedListUnswapped(tree, feed_root_id, start_d, end_d, t0, t1) ==
    list_candidate_parquet_files(tree, feed_root_id, start_d, end_d, t0, t1)
LoadClickedList(tree, feed_root_id, start_d, end_d, t0, t1) ==
    list_candidate_parquet_files(tree, feed_root_id,
        Min(start_d, end_d), Max(start_d, end_d), t0, t1)

\* ------------------------------------------------------------ path lookup
\* resolve_folder_path: root -> agency_slug -> raw -> feed.  id is the value
\* returned; calls lists the drive_find_child_folder_id calls it made, each
\* <<parent_id, folder_name>>, in order.  (st.cache_data may answer a
\* repeated lookup from its cache; on an unchanged tree the answer is the
\* same, and calls is the list of lookups made on a cache miss.)
ResolveAllLookups(tree, root_id, agency_slug, feed_name) ==
    LET agency_id == drive_find_child_folder_id(tree, root_id, agency_slug)
        raw_id == drive_find_child_folder_id(tree, agency_id, RAW)
    IN  [id |-> drive_find_child_folder_id(tree, raw_id, feed_name),
         calls |-> << <<root_id, agency_slug>>, <<agency_id, RAW>>,
                      <<raw_id, feed_name>> >>]

resolve_folder_path(tree, root_id, agency_slug, feed_name) ==
    LET agency_id == drive_find_child_folder_id(tree, root_id, agency_slug)
        raw_id == drive_find_child_folder_id(tree, agency_id, RAW)
    IN  IF Falsy(agency_id)
        THEN [id |-> None, calls |-> << <<root_id, agency_slug>> >>]
        ELSE IF Falsy(raw_id)
        THEN [id |-> None,
              calls |-> << <<root_id, agency_slug>>, <<agency_id, RAW>> >>]
        ELSE [id |-> drive_find_child_folder_id(tree, raw_id, feed_name),
              calls |-> << <<root_id, agency_slug>>, <<agency_id, RAW>>,
                           <<raw_id, feed_name>> >>]

\* ------------------------------------------------------------- file system
\* A destination path: a directory and a file name in it.
HomeCsv == [dir |-> "home", name |-> <<"o", "u", "t", ".", "c", "s", "v">>]
HomeTxt == [dir |-> "home", name |-> <<"o", "u", "t", ".", "t", "x", "t">>]
DirCsv == [dir |-> "home", name |-> <<"d", ".", "c", "s", "v">>]
RoCsv == [dir |-> "ro", name |-> <<"o", "u", "t", ".", "C", "S", "V">>]
BlockedCsv == [dir |-> "blocked", name |-> <<"o", "u", "t", ".", "c", "s", "v">>]

Paths == {HomeCsv, HomeTxt, DirCsv, RoCsv, BlockedCsv}

\* "home" exists and is writable; "ro" exists and is not writable; "blocked"
\* cannot be created (Path.mkdir raises).
DirCreatable(dir) == dir # "blocked"
DirWritable(dir) == dir = "home"

Absent == [kind |-> "absent", lines |-> <<>>]
Directory == [kind |-> "dir", lines |-> <<>>]
RegularFile(lines) == [kind |-> "file", lines |-> lines]

\* One line of a CSV file: the header of a schema, or row i of a part file.
HeaderLine(schema) == <<"H", schema, 0>>
RowLine(fid, i) == <<"R", fid, i>>

StaleFile ==
    RegularFile(<<HeaderLine("old")>> \o [i \in 1..StaleRows |-> RowLine("old", i)])

\* pq.read_table(...).to_pandas(): the rows of a part file, in order.
DataFrame(node) == [i \in 1..node.rows |-> RowLine(node.id, i)]

\* header=(not wrote_header)
HeaderAlways(wrote_header) == TRUE
HeaderArg(wrote_header) == ~wrote_header

\* df.to_csv(out_path, mode="a", index=False, header=...): the file after
\* the append (created when absent).
ToCsvAppend(file, node, header) ==
    RegularFile(file.lines
                \o (IF header THEN <<HeaderLine(node.schema)>> ELSE <<>>)
                \o DataFrame(node))

\* out_path.parent.mkdir(...); if out_path.exists(): out_path.unlink().
\* ok = FALSE when one of them raises.
PrepareKeepExisting(fs, path) ==
    IF ~DirCreatable(path.dir) THEN [ok |-> FALSE, fs |-> fs]
    ELSE [ok |-> TRUE, fs |-> fs]

PrepareDestination(fs, path) ==
    IF ~DirCreatable(path.dir) THEN [ok |-> FALSE, fs |-> fs]
    ELSE IF fs[path].kind = "absent" THEN [ok |-> TRUE, fs |-> fs]
    ELSE IF fs[path].kind = "dir" \/ ~DirWritable(path.dir)
    THEN [ok |-> FALSE, fs |-> fs]
    ELSE [ok |-> TRUE, fs |-> [fs EXCEPT ![path] = Absent]]

\* Lines 295-319 of export_csv_streaming: the emptiness check, then the
\* preparation of the destination.
ExportEntryPrepareFirst(tuples, fs, path) ==
    LET prep == PrepareDestination(fs, path)
    IN  IF ~prep.ok THEN [result |-> "error_path", fs |-> prep.fs]
        ELSE IF tuples = <<>> THEN [result |-> "error_no_files", fs |-> prep.fs]
        ELSE [result |-> "started", fs |-> prep.fs]

ExportEntry(tuples, fs, path) ==
    IF tuples = <<>> THEN [result |-> "error_no_files", fs |-> fs]
    ELSE LET prep == PrepareDestination(fs, path)
         IN  IF prep.ok THEN [result |-> "started", fs |-> prep.fs]
             ELSE [result |-> "error_path", fs |-> prep.fs]

\* save_path.lower().endswith(".csv")
HasCsvSuffix(path) == EndsWith(Lower(path.name), <<".", "c", "s", "v">>)

\* ------------------------------------------------------------------- state
VARIABLES
    layout,        \* which remote tree the deployment has
    feed,          \* st.selectbox("Feed", FEEDS)
    start_d,       \* st.date_input("Start date")
    end_d,         \* st.date_input("End date")
    t0,            \* st.time_input("Start time"), or None
    t1,            \* st.time_input("End time"), or None
    save_path,     \* st.session_state["save_path"]
    busy,          \* st.session_state.busy
    pc,            \* position of the script run
    outcome,       \* how the last script run ended
    feed_root_id,  \* resolve_folder_path(...)
    lookups,       \* drive_find_child_folder_id calls of resolve_folder_path
    list_calls,    \* list_candidate_parquet_files calls of this run
    file_tuples,   \* the candidate list
    idx,           \* i of the export loop
    downloads,     \* file ids passed to drive_download_bytes in this run
    wrote_header,  \* export_csv_streaming's wrote_header
    total_rows,    \* export_csv_streaming's total_rows
    reported_rows, \* the row count of the "Done. Wrote ..." message
    files,         \* the local file system: Paths -> file state
    files_before,  \* the file system when this run's export was entered
    caller,        \* who called list_candidate_parquet_files (enumeration spec)
    second         \* the result of repeating that call

vars ==
    << layout, feed, start_d, end_d, t0, t1, save_path, busy, pc, outcome,
       feed_root_id, lookups, list_calls, file_tuples, idx, downloads,
       wrote_header, total_rows, reported_rows, files, files_before,
       caller, second >>

inputVars == << feed, start_d, end_d, t0, t1, save_path >>
exportVars == << idx, wrote_header, total_rows >>
enumVars == << caller, second >>

\* The times the two st.time_input widgets are set to in the model.
TimeInputs == {Time(0, 0), Time(5, 0), Time(6, 30), Time(23, 59)}

\* --------------------------------------- enumeration as a function (SpecEnum)
\* list_candidate_parquet_files applied to arbitrary arguments, directly or
\* through the Load / Refresh handler's call site.
InitEnum ==
    /\ layout = "full"
    /\ feed \in {FEEDS[1], FEEDS[2]}
    /\ feed_root_id = resolve_folder_path(Tree(layout), "ROOT", AGENCY_SLUG_DEFAULT, feed).id
    /\ start_d \in Dates
    /\ end_d \in Dates
    /\ t0 \in TimeInputs \cup {NoTime}
    /\ t1 \in TimeInputs \cup {NoTime}
    /\ save_path = HomeCsv
    /\ busy = FALSE
    /\ pc = "idle"
    /\ outcome = "none"
    /\ lookups = <<>>
    /\ list_calls = 0
    /\ file_tuples = <<>>
    /\ idx = 0
    /\ downloads = <<>>
    /\ wrote_header = FALSE
    /\ total_rows = 0
    /\ reported_rows = 0
    /\ files = [p \in Paths |-> IF p = DirCsv THEN Directory ELSE Absent]
    /\ files_before = files
    /\ caller = "none"
    /\ second = [done |-> FALSE, result |-> <<>>]

DirectCall ==
    /\ caller = "none"
    /\ file_tuples' = list_candidate_parquet_files(
           Tree(layout), feed_root_id, start_d, end_d, t0, t1)
    /\ caller' = "direct"
    /\ list_calls' = list_calls + 1
    /\ UNCHANGED << layout, inputVars, busy, pc, outcome, feed_root_id, lookups,
                    exportVars, downloads, reported_rows, files, files_before,
                    second >>

HandlerCall ==
    /\ caller = "none"
    /\ file_tuples' = LoadClickedList(
           Tree(layout), feed_root_id, start_d, end_d, t0, t1)
    /\ caller' = "handler"
    /\ list_calls' = list_calls + 1
    /\ UNCHANGED << layout, inputVars, busy, pc, outcome, feed_root_id, lookups,
                    exportVars, downloads, reported_rows, files, files_before,
                    second >>

CallAgain ==
    /\ caller # "none"
    /\ ~second.done
    /\ second' = [done |-> TRUE, result |->
                    IF caller = "direct"
                    THEN list_candidate_parquet_files(
                             Tree(layout), feed_root_id, start_d, end_d, t0, t1)
                    ELSE LoadClickedList(
                             Tree(layout), feed_root_id, start_d, end_d, t0, t1)]
    /\ list_calls' = list_calls + 1
    /\ UNCHANGED << layout, inputVars, busy, pc, outcome, feed_root_id, lookups,
                    file_tuples, exportVars, downloads, reported_rows, files,
                    files_before, caller >>

NextEnum == DirectCall \/ HandlerCall \/ CallAgain

SpecEnum == InitEnum /\ [][NextEnum]_vars

\* ------------------------------------------------- the script run (Spec)
\* The hour filter of the form: unchecked (both None), or both time inputs.
TimePairs ==
    { <<NoTime, NoTime>>, <<Time(5, 0), Time(6, 30)>>,
      <<Time(23, 59), Time(0, 0)>>, <<Time(0, 0), Time(0, 0)>> }

Init ==
    /\ layout \in Layouts
    /\ feed = FEEDS[1]
    /\ start_d = 30
    /\ end_d = 31
    /\ t0 = NoTime
    /\ t1 = NoTime
    /\ save_path = HomeCsv
    /\ busy = FALSE
    /\ pc = "idle"
    /\ outcome = "none"
    /\ feed_root_id = None
    /\ lookups = <<>>
    /\ list_calls = 0
    /\ file_tuples = <<>>
    /\ idx = 0
    /\ downloads = <<>>
    /\ wrote_header = FALSE
    /\ total_rows = 0
    /\ reported_rows = 0
    /\ files \in {[p \in Paths |-> IF p = DirCsv THEN Directory
                                   ELSE IF p = HomeCsv THEN f ELSE Absent] :
                  f \in {Absent, StaleFile}}
    /\ files_before = files
    /\ caller = "none"
    /\ second = [done |-> FALSE, result |-> <<>>]

\* The handler left with st.stop() bypassing the `finally`: busy stays set
\* after the .csv stop.
EndRunStopKeepsBusy(how) ==
    /\ outcome' = how
    /\ busy' = (how = "bad_suffix" /\ busy)
    /\ pc' = "ended"

\* The handler is left, by return, exception or st.stop(): its `finally`
\* resets busy.
EndRun(how) ==
    /\ outcome' = how
    /\ busy' = FALSE
    /\ pc' = "ended"

\* One rerun of the script up to the handler: the widgets take their values,
\* the feed folder is resolved (st.stop() when it is not found), and a click
\* on Load / Refresh enters the handler.
Rerun ==
    /\ pc = "idle"
    /\ \E f \in {FEEDS[i] : i \in 1..Len(FEEDS)}, sd \in Dates, ed \in Dates,
          tp \in TimePairs, p \in Paths, load_clicked \in BOOLEAN :
          LET r == resolve_folder_path(Tree(layout), "ROOT", AGENCY_SLUG_DEFAULT, f)
          IN  /\ feed' = f
              /\ start_d' = sd
              /\ end_d' = ed
              /\ t0' = tp[1]
              /\ t1' = tp[2]
              /\ save_path' = p
              /\ feed_root_id' = r.id
              /\ lookups' = r.calls
              /\ IF Falsy(r.id)
                 THEN /\ outcome' = "path_not_found"
                      /\ pc' = "ended"
                      /\ busy' = busy
                 ELSE IF load_clicked /\ ~busy
                 THEN /\ outcome' = "running"
                      /\ pc' = "list"
                      /\ busy' = TRUE
                 ELSE /\ outcome' = "no_click"
                      /\ pc' = "ended"
                      /\ busy' = busy
    /\ list_calls' = 0
    /\ file_tuples' = <<>>
    /\ idx' = 0
    /\ downloads' = <<>>
    /\ wrote_header' = FALSE
    /\ total_rows' = 0
    /\ reported_rows' = 0
    /\ files_before' = files
    /\ UNCHANGED << layout, files, enumVars >>

\* list_candidate_parquet_files in the handler; a failure of the remote
\* tree service propagates to the handler's except clause.
ListCandidates ==
    /\ pc = "list"
    /\ list_calls' = list_calls + 1
    /\ \E transport_ok \in BOOLEAN :
          IF transport_ok
          THEN /\ file_tuples' = LoadClickedList(
                      Tree(layout), feed_root_id, start_d, end_d, t0, t1)
               /\ pc' = "check"
               /\ UNCHANGED << outcome, busy >>
          ELSE /\ EndRun("error_listing")
               /\ UNCHANGED file_tuples
    /\ UNCHANGED << layout, inputVars, feed_root_id, lookups, exportVars,
                    downloads, reported_rows, files, files_before, enumVars >>

\* The .csv check of the handler (st.stop() on failure), then lines 295-319
\* of export_csv_streaming.
EnterExport ==
    /\ pc = "check"
    /\ IF ~HasCsvSuffix(save_path)
       THEN /\ EndRun("bad_suffix")
            /\ UNCHANGED << files, exportVars >>
       ELSE LET e == ExportEntry(file_tuples, files, save_path)
            IN  /\ files' = e.fs
                /\ IF e.result = "started"
                   THEN /\ pc' = "download"
                        /\ idx' = 1
                        /\ wrote_header' = FALSE
                        /\ total_rows' = 0
                        /\ UNCHANGED << outcome, busy >>
                   ELSE /\ EndRun(e.result)
                        /\ UNCHANGED exportVars
    /\ files_before' = files
    /\ UNCHANGED << layout, inputVars, feed_root_id, lookups, list_calls,
                    file_tuples, downloads, reported_rows, enumVars >>

Candidate == Node(Tree(layout), file_tuples[idx][1])

\* drive_download_bytes for candidate idx; the transfer may fail.
Download ==
    /\ pc = "download"
    /\ downloads' = Append(downloads, file_tuples[idx][1])
    /\ \E transport_ok \in BOOLEAN :
          IF transport_ok
          THEN /\ pc' = "decode"
               /\ UNCHANGED << outcome, busy >>
          ELSE EndRun("error_download")
    /\ UNCHANGED << layout, inputVars, feed_root_id, lookups, list_calls,
                    file_tuples, exportVars, reported_rows, files,
                    files_before, enumVars >>

\* Decode with skip-and-continue: the undecodable file is passed over and the
\* loop goes on with the next candidate.
DecodeSkipOnError ==
    /\ pc = "decode"
    /\ IF ~Candidate.corrupt
       THEN /\ pc' = "append"
            /\ UNCHANGED << outcome, busy, idx, reported_rows >>
       ELSE IF idx < Len(file_tuples)
       THEN /\ pc' = "download"
            /\ idx' = idx + 1
            /\ UNCHANGED << outcome, busy, reported_rows >>
       ELSE /\ EndRun("ok")
            /\ reported_rows' = total_rows
            /\ UNCHANGED idx
    /\ UNCHANGED << layout, inputVars, feed_root_id, lookups, list_calls,
                    file_tuples, wrote_header, total_rows, downloads,
                    files, files_before, enumVars >>

\* pq.read_table(...).to_pandas() for candidate idx; undecodable bytes raise.
Decode ==
    /\ pc = "decode"
    /\ IF Candidate.corrupt
       THEN EndRun("error_decode")
       ELSE /\ pc' = "append"
            /\ UNCHANGED << outcome, busy >>
    /\ UNCHANGED << layout, inputVars, feed_root_id, lookups, list_calls,
                    file_tuples, exportVars, downloads, reported_rows, files,
                    files_before, enumVars >>

\* df.to_csv(..., mode="a", header=(not wrote_header)) for candidate idx, then
\* the bookkeeping of the loop; creating the file in a directory that is not
\* writable raises.
AppendCsv ==
    /\ pc = "append"
    /\ IF files[save_path].kind = "absent" /\ ~DirWritable(save_path.dir)
       THEN /\ EndRun("error_path")
            /\ UNCHANGED << files, exportVars >>
       ELSE /\ files' = [files EXCEPT ![save_path] =
                            ToCsvAppend(@, Candidate, HeaderArg(wrote_header))]
            /\ wrote_header' = TRUE
            /\ total_rows' = total_rows + Len(DataFrame(Candidate))
            /\ IF idx < Len(file_tuples)
               THEN /\ idx' = idx + 1
                    /\ pc' = "download"
               ELSE /\ idx' = idx
                    /\ pc' = "finish"
            /\ UNCHANGED << outcome, busy >>
    /\ UNCHANGED << layout, inputVars, feed_root_id, lookups, list_calls,
                    file_tuples, downloads, reported_rows, files_before,
                    enumVars >>

\* The end of export_csv_streaming: the "Done. Wrote ..." message; the
\* handler stores the path and its `finally` resets busy.
Finish ==
    /\ pc = "finish"
    /\ reported_rows' = total_rows
    /\ EndRun("ok")
    /\ UNCHANGED << layout, inputVars, feed_root_id, lookups, list_calls,
                    file_tuples, exportVars, downloads, files, files_before,
                    enumVars >>

\* The script run is over: its variables are gone; st.session_state (busy,
\* save_path) and the file system stay for the next run.
ScriptEnd ==
    /\ pc = "ended"
    /\ pc' = "idle"
    /\ outcome' = "none"
    /\ feed' = FEEDS[1]
    /\ start_d' = 30
    /\ end_d' = 31
    /\ t0' = NoTime
    /\ t1' = NoTime
    /\ feed_root_id' = None
    /\ lookups' = <<>>
    /\ list_calls' = 0
    /\ file_tuples' = <<>>
    /\ idx' = 0
    /\ downloads' = <<>>
    /\ wrote_header' = FALSE
    /\ total_rows' = 0
    /\ reported_rows' = 0
    /\ files_before' = files
    /\ UNCHANGED << layout, save_path, busy, files, enumVars >>

Next ==
    \/ Rerun
    \/ ScriptEnd
    \/ ListCandidates
    \/ EnterExport
    \/ Download
    \/ Decode
    \/ AppendCsv
    \/ Finish

Spec == Init /\ [][Next]_vars

\* ------------------------------------------------------ what the claims read
TheTree == Tree(layout)

\* The ids of the candidate list, in order.
CandidateIds == [i \in 1..Len(file_tuples) |-> file_tuples[i][1]]

RECURSIVE SumRows(_)
SumRows(ids) ==
    IF ids = <<>> THEN 0 ELSE Node(TheTree, ids[1]).rows + SumRows(Tail(ids))

RECURSIVE ConcatRows(_)
ConcatRows(ids) ==
    IF ids = <<>> THEN <<>>
    ELSE DataFrame(Node(TheTree, ids[1])) \o ConcatRows(Tail(ids))

\* The destination after the first j candidates were appended to a fresh file.
ExpectedFile(j) ==
    IF j = 0 THEN Absent
    ELSE RegularFile(<<HeaderLine(Node(TheTree, CandidateIds[1]).schema)>>
                     \o ConcatRows(SubSeq(CandidateIds, 1, j)))

HeaderCount(lines) == Cardinality({i \in 1..Len(lines) : lines[i][1] = "H"})
RowCount(lines) == Cardinality({i \in 1..Len(lines) : lines[i][1] = "R"})

\* The partition a part file lies in, read off the tree: the calendar date of
\* its date folder and the name of its hour folder.
HourFolderOf(id) == Node(TheTree, Node(TheTree, id).parent)
DateFolderOf(id) == Node(TheTree, HourFolderOf(id).parent)
DateOf(id) == CHOOSE d \in 1..366 : date_folder_name(d) = DateFolderOf(id).name
HourNumOf(id) == HourOfName(HourFolderOf(id).name).val

\* A folder name of the form hour=<int>.
IsHourEqInt(name) ==
    /\ Len(name) > 5
    /\ SubSeq(name, 1, 5) = <<"h", "o", "u", "r", "=">>
    /\ ParseInt(SubSeq(name, 6, Len(name))).ok

\* A folder name in the zero-padded two-digit encoding hour=HH.
IsPaddedHour(name) == \E h \in 0..99 : name = hour_folder_name(h)

\* The dates the call walked: as given for a direct call, min..max through
\* the handler.
WalkedDates ==
    IF caller = "handler" THEN Min(start_d, end_d) .. Max(start_d, end_d)
    ELSE start_d .. end_d

\* The *.parquet files of the feed that lie in a date folder of a walked date
\* and in an hour folder whose number is read and lies in `hours`.
Eligible(hours) ==
    { n.id : n \in { TheTree[i] : i \in
        { k \in 1..Len(TheTree) :
            /\ ~TheTree[k].folder
            /\ EndsWith(TheTree[k].name, <<".", "p", "a", "r", "q", "u", "e", "t">>)
            /\ \E h \in 1..Len(TheTree), d \in 1..Len(TheTree) :
                  /\ TheTree[h].id = TheTree[k].parent
                  /\ TheTree[h].folder
                  /\ HourOfName(TheTree[h].name).ok
                  /\ HourOfName(TheTree[h].name).val \in hours
                  /\ TheTree[d].id = TheTree[h].parent
                  /\ TheTree[d].folder
                  /\ TheTree[d].parent = feed_root_id
                  /\ \E day \in WalkedDates :
                        TheTree[d].name = date_folder_name(day) } } }

Emitted == {file_tuples[i][1] : i \in 1..Len(file_tuples)}

\* ------------------------------------------------------------------ claims

\* C1: a successful export of a non-empty candidate list leaves a destination
\* file with exactly one header line, the first line, written by the first
\* append, followed by as many data rows as the source files hold together,
\* and the row count it reports is that sum.
C1_OneHeaderThenAllRows ==
    (pc = "ended" /\ outcome = "ok") =>
        LET f == files[save_path]
        IN  /\ file_tuples # <<>>
            /\ f.kind = "file"
            /\ HeaderCount(f.lines) = 1
            /\ f.lines[1] = HeaderLine(Node(TheTree, CandidateIds[1]).schema)
            /\ RowCount(f.lines) = SumRows(CandidateIds)
            /\ Len(f.lines) = 1 + SumRows(CandidateIds)
            /\ reported_rows = SumRows(CandidateIds)

C1_Witness ==
    /\ pc = "ended"
    /\ outcome = "ok"
    /\ Len(file_tuples) >= 3
    /\ SumRows(CandidateIds) >= 3

\* C2 as stated: after export_csv_streaming raised the "no files" error the
\* destination path does not exist, whatever the file system held before.
C2_DestinationAbsentAfterNoFiles ==
    (pc = "ended" /\ outcome = "error_no_files") =>
        files[save_path].kind = "absent"

\* C2 amended: export_csv_streaming with an empty candidate list raises the
\* "no files" error before it touches the destination: it creates no file and
\* leaves the file system as it found it (a file already at the path stays).
C2_NoFilesLeavesFileSystemUnchanged ==
    /\ (pc = "ended" /\ outcome = "error_no_files") =>
           /\ file_tuples = <<>>
           /\ files = files_before
           /\ downloads = <<>>
    /\ (pc = "ended" /\ file_tuples = <<>>
          /\ outcome \in {"ok", "error_no_files", "error_path",
                          "error_download", "error_decode"}) =>
           outcome = "error_no_files"

C2_Witness ==
    /\ pc = "ended"
    /\ outcome = "error_no_files"
    /\ files[save_path].kind = "file"
    /\ files[save_path] # StaleFile

\* C3 as stated: the returned list is sorted ascending by (logical partition
\* string, file name), a repeated call returns the same sequence, and the
\* order visits the partitions chronologically.
SortedByKey ==
    \A i \in 1..Len(file_tuples), j \in 1..Len(file_tuples) :
        i < j => ~SortKeyLess(file_tuples[j], file_tuples[i])

C4_EnumeratorIgnoresDateOrder ==
    (caller = "direct" /\ start_d > end_d) =>
        file_tuples = list_candidate_parquet_files(
                          TheTree, feed_root_id, end_d, start_d, t0, t1)

\* C4 amended: the Load / Refresh handler passes min and max of the two dates,
\* so the order in which they are entered never changes the candidate list and
\* every date from min to max inclusive is walked; list_candidate_parquet_files
\* itself, given start_date after end_date, walks no date and returns the
\* empty list.
C4_HandlerIgnoresDateOrder ==
    /\ caller = "handler" =>
          /\ file_tuples = LoadClickedList(
                               TheTree, feed_root_id, end_d, start_d, t0, t1)
          /\ Emitted = Eligible(IF t0.some /\ t1.some
                                THEN Min(t0.hour, t1.hour) .. Max(t0.hour, t1.hour)
                                ELSE Int)
    /\ (caller = "direct" /\ start_d > end_d) => file_tuples = <<>>

C4_Witness ==
    /\ caller = "handler"
    /\ start_d > end_d + 1
    /\ \E i \in 1..Len(file_tuples), j \in 1..Len(file_tuples) :
          /\ DateOf(CandidateIds[i]) = end_d
          /\ DateOf(CandidateIds[j]) = start_d

\* C5: with both a start and an end time given (any hours, 0 included) a file
\* is emitted exactly when its hour folder's number lies in min(h0,h1) ..
\* max(h0,h1), so equal hours keep that one hour; with either omitted the
\* files of every hour folder are emitted.
C5_HourFilterIsInclusiveRange ==
    caller # "none" =>
        IF t0.some /\ t1.some
        THEN /\ Emitted = Eligible(Min(t0.hour, t1.hour) .. Max(t0.hour, t1.hour))
             /\ \A i \in 1..Len(file_tuples) :
                   /\ HourNumOf(CandidateIds[i]) >= Min(t0.hour, t1.hour)
                   /\ HourNumOf(CandidateIds[i]) <= Max(t0.hour, t1.hour)
        ELSE Emitted = Eligible(Int)

C5_Witness ==
    /\ caller # "none"
    /\ t0.some /\ t1.some
    /\ t0.hour = 0 /\ t1.hour = 0
    /\ file_tuples # <<>>
    /\ \A i \in 1..Len(file_tuples) : HourNumOf(CandidateIds[i]) = 0

\* C6: when one of the three folder lookups finds nothing, resolve_folder_path
\* returns None without making the remaining lookups, and the run stops with
\* "path not found" before any listing, any download and any change to the
\* file system.
LookupResult(call) == drive_find_child_folder_id(TheTree, call[1], call[2])

C6_NotFoundStopsBeforeAnyWork ==
    /\ (pc = "ended" /\ outcome = "path_not_found") =>
           /\ Len(lookups) \in 1..3
           /\ LookupResult(lookups[Len(lookups)]) = None
           /\ \A i \in 1..(Len(lookups) - 1) : LookupResult(lookups[i]) # None
           /\ feed_root_id = None
           /\ list_calls = 0
           /\ downloads = <<>>
           /\ files = files_before
    /\ (\E i \in 1..Len(lookups) : LookupResult(lookups[i]) = None) =>
           (pc = "ended" /\ outcome = "path_not_found")

C6_Witness ==
    /\ pc = "ended"
    /\ outcome = "path_not_found"
    /\ Len(lookups) = 3
    /\ lookups[3][2] = FEEDS[3]

\* C7: a run that ends in an output-path error (the path is invalid or
\* unwritable, or lacks the .csv suffix) has made no download call.
C7_NoDownloadBeforePathError ==
    (pc = "ended" /\ outcome \in {"bad_suffix", "error_path"}) =>
        downloads = <<>>

\* C8: candidates are downloaded one at a time in list order, and when the
\* download or decode of candidate k fails the export stops there: nothing
\* after k is downloaded, the run ends with that error, and the destination
\* holds exactly the batches of candidates 1..k-1.
C8_FailFastKeepsEarlierBatches ==
    /\ Len(downloads) <= Len(file_tuples)
    /\ downloads = SubSeq(CandidateIds, 1, Len(downloads))
    /\ \A i \in 1..Len(downloads) :
          Node(TheTree, downloads[i]).corrupt =>
             /\ i = Len(downloads)
             /\ \/ pc = "decode"
                \/ pc = "ended" /\ outcome \in {"error_download", "error_decode"}
    /\ (pc = "ended" /\ outcome \in {"error_download", "error_decode"}) =>
           /\ Len(downloads) = idx
           /\ files[save_path] = ExpectedFile(idx - 1)
           /\ reported_rows = 0

C8_Witness ==
    /\ pc = "ended"
    /\ outcome \in {"error_download", "error_decode"}
    /\ idx >= 2
    /\ idx < Len(file_tuples)
    /\ RowCount(files[save_path].lines) >= 2

\* C9: once an export call has started appending, the destination holds only
\* the header and the rows that call has produced so far, whatever an earlier
\* call or another program left at the path.
C9_DestinationHoldsOnlyThisCall ==
    idx >= 1 =>
        files[save_path] =
            ExpectedFile(IF pc = "finish" \/ (pc = "ended" /\ outcome = "ok")
                         THEN Len(file_tuples) ELSE idx - 1)

C9_Witness ==
    /\ pc = "ended"
    /\ outcome = "ok"
    /\ files_before[save_path].kind = "file"
    /\ files_before[save_path] # StaleFile
    /\ files_before[save_path] # files[save_path]

\* C10: every candidate comes from an hour folder whose name is of the form
\* hour=<int>; any other child folder of a date folder is skipped.
C10_OnlyHourIntFoldersContribute ==
    caller # "none" =>
        \A i \in 1..Len(file_tuples) :
            IsHourEqInt(HourFolderOf(CandidateIds[i]).name)

\* C11: the busy flag is set exactly while the handler block of one run is
\* executing (listing, suffix check, export), and it is clear again once a run
\* has ended, however it ended: successful export, an error caught from the
\* listing or the export, or the st.stop() of a path without the .csv suffix.
HandlerPositions == {"list", "check", "download", "decode", "append", "finish"}

C11_BusyOnlyDuringHandler ==
    /\ busy <=> pc \in HandlerPositions
    /\ pc \in {"idle", "ended"} => ~busy
    /\ (pc = "ended" /\ outcome \in
            {"ok", "error_listing", "error_no_files", "error_path",
             "error_download", "error_decode", "bad_suffix"}) => ~busy

C11_Witness ==
    /\ pc = "ended"
    /\ outcome = "bad_suffix"
    /\ list_calls = 1
    /\ file_tuples # <<>>
    /\ ~busy

====
